---- MODULE Spec2Model ----
(***************************************************************************)
(* A model of simple_logging: the Logger of simple_logging/loggers.py, its *)
(* template key extraction (keyname_regex), the rendering of a template    *)
(* with str.format, and the fan-out of the rendered text to the handlers   *)
(* of simple_logging/handlers.                                             *)
(*                                                                         *)
(* Text is modelled character by character: a string is a sequence of      *)
(* one-character strings, so that the regular expression and str.format    *)
(* are computed on the characters as Python computes them.                 *)
(***************************************************************************)
EXTENDS Integers, Sequences, FiniteSets, TLC

VARIABLES
    loggers,   \* logger id -> the fields of the Logger object (Blank before construction)
    heap,      \* list object -> its elements: the handler lists, held by reference
    out,       \* sink -> the characters written to its stream since it was last read
    call,      \* the log call whose output is still unread in the sinks, or NoCall
    given      \* logger id -> the sink arguments its constructor was called with

vars == <<loggers, heap, out, call, given>>

----------------------------------------------------------------------------
(* Characters and strings *)

Letters == {"a", "b", "c", "d", "e", "f", "g", "h", "i", "j", "k", "l", "m",
            "n", "o", "p", "q", "r", "s", "t", "u", "v", "w", "x", "y", "z",
            "A", "B", "C", "D", "E", "F", "G", "H", "I", "J", "K", "L", "M",
            "N", "O", "P", "Q", "R", "S", "T", "U", "V", "W", "X", "Y", "Z"}

Digits == {"0", "1", "2", "3", "4", "5", "6", "7", "8", "9"}

\* The character class [a-zA-Z0-9_] of keyname_regex.
IdentChars == Letters \cup Digits \cup {"_"}

NL == "\n"

\* The backspace character "\b".
BS == "\\b"

K_message == <<"m", "e", "s", "s", "a", "g", "e">>
K_timestamp == <<"t", "i", "m", "e", "s", "t", "a", "m", "p">>
K_level == <<"l", "e", "v", "e", "l">>
K_name == <<"n", "a", "m", "e">>
K_foo == <<"f", "o", "o">>
K_a == <<"a">>

\* str() of a function object, "<function ... at 0x...>".
ReprFn == <<"<", "f", "n", ">">>

----------------------------------------------------------------------------
(* Values: a literal string, or a zero-argument producer returning one *)

Lit(s) == [fn |-> FALSE, s |-> s]

Producer(s) == [fn |-> TRUE, s |-> s]

\* callable(value)
callable(v) == v.fn

\* bool(value): a function object is truthy, a string is truthy unless empty.
Truthy(v) == v.fn \/ v.s # <<>>

\* value() if callable(value) else value
Resolve(v) == IF callable(v) THEN Lit(v.s) ELSE v

\* str(value)
Str(v) == IF v.fn THEN ReprFn ELSE v.s

\* The empty mapping {}.
EmptyMap == <<>>

\* dict.update: the entries of g replace and extend those of f.
Update(f, g) ==
    [k \in DOMAIN f \cup DOMAIN g |-> IF k \in DOMAIN g THEN g[k] ELSE f[k]]

\* The mapping without the keys of ks (dict.pop of each).
Without(f, ks) == [k \in DOMAIN f \ ks |-> f[k]]

----------------------------------------------------------------------------
(* keyname_regex and re.findall *)

RECURSIVE IdentRunEnd(_, _)
\* The first position at or after j that holds no identifier character:
\* the greedy match of [a-zA-Z0-9_]+ from j ends before it.
IdentRunEnd(s, j) ==
    IF j <= Len(s) /\ s[j] \in IdentChars THEN IdentRunEnd(s, j + 1) ELSE j

RECURSIVE FindAllFrom(_, _)
\* The non-overlapping matches of \{([a-zA-Z0-9_]+)\} from position i on,
\* left to right, each giving its group: every match, repeats included.
FindAllFrom(s, i) ==
    IF i > Len(s) THEN <<>>
    ELSE IF s[i] = "{"
         THEN LET j == IdentRunEnd(s, i + 1)
              IN  IF j > i + 1 /\ j <= Len(s) /\ s[j] = "}"
                  THEN <<SubSeq(s, i + 1, j - 1)>> \o FindAllFrom(s, j + 1)
                  ELSE FindAllFrom(s, i + 1)
         ELSE FindAllFrom(s, i + 1)

\* re.search in place of re.findall: the first match only.
keyname_search(template) ==
    LET all == FindAllFrom(template, 1)
    IN  IF all = <<>> THEN <<>> ELSE <<Head(all)>>

\* re.findall(keyname_regex, template)
keyname_findall(template) == FindAllFrom(template, 1)

----------------------------------------------------------------------------
(* str.format with keyword arguments and no positional ones, for templates *)
(* over identifier characters, braces, ":" and plain literal characters    *)
(* (a field holds no ".", "[" or "!").                                     *)

Ok(t) == [err |-> "none", text |-> t]

Raise(e) == [err |-> e, text |-> <<>>]

RECURSIVE FieldNameEnd(_, _)
\* The first position at or after k holding "{", "}" or ":", or Len(s) + 1.
FieldNameEnd(s, k) ==
    IF k <= Len(s) /\ s[k] \notin {"{", "}", ":"} THEN FieldNameEnd(s, k + 1) ELSE k

RECURSIVE SpecEnd(_, _, _)
\* The position of the brace closing the field whose format spec starts at
\* m, counting nested braces, or Len(s) + 1 when the field is never closed.
SpecEnd(s, m, count) ==
    IF m > Len(s) THEN m
    ELSE IF s[m] = "{" THEN SpecEnd(s, m + 1, count + 1)
    ELSE IF s[m] = "}" THEN (IF count = 1 THEN m ELSE SpecEnd(s, m + 1, count - 1))
    ELSE SpecEnd(s, m + 1, count)

\* A format spec str.__format__ accepts among those built from the model's
\* characters: an optional run of "0" (zero flag, width 0) and an optional
\* type "s". The result is then the string itself.
StrSpecOk(spec) ==
    LET n == Len(spec)
        m == IF n > 0 /\ spec[n] = "s" THEN n - 1 ELSE n
    IN  \A p \in 1..m : spec[p] = "0"

\* format(value, spec): object.__format__ of a function object rejects any
\* non-empty spec; str.__format__ rejects a spec it cannot parse.
format_value(v, spec) ==
    IF v.fn
    THEN IF spec = <<>> THEN Ok(ReprFn) ELSE Raise("TypeError")
    ELSE IF StrSpecOk(spec) THEN Ok(v.s) ELSE Raise("ValueError")

RECURSIVE Markup(_, _, _, _, _)
\* The scan of the format string from position i with the text rendered so
\* far: literal text, "{{" and "}}", and replacement fields, left to right;
\* the first error ends it. A nested format spec is expanded one level deep.
Markup(s, kw, depth, i, acc) ==
    IF depth <= 0 THEN Raise("ValueError")
    ELSE IF i > Len(s) THEN Ok(acc)
    ELSE IF s[i] \notin {"{", "}"} THEN Markup(s, kw, depth, i + 1, Append(acc, s[i]))
    ELSE IF s[i] = "}" /\ (i = Len(s) \/ s[i + 1] # "}") THEN Raise("ValueError")
    ELSE IF i = Len(s) THEN Raise("ValueError")
    ELSE IF s[i + 1] = s[i] THEN Markup(s, kw, depth, i + 2, Append(acc, s[i]))
    ELSE LET k == FieldNameEnd(s, i + 1)
             name == SubSeq(s, i + 1, k - 1)
             hasSpec == k <= Len(s) /\ s[k] = ":"
             m == IF hasSpec THEN SpecEnd(s, k + 1, 1) ELSE k
             rawSpec == IF hasSpec THEN SubSeq(s, k + 1, m - 1) ELSE <<>>
             expand == \E p \in 1..Len(rawSpec) : rawSpec[p] = "{"
             spec == IF expand THEN Markup(rawSpec, kw, depth - 1, 1, <<>>) ELSE Ok(rawSpec)
         IN  IF k > Len(s) \/ s[k] = "{" \/ m > Len(s) THEN Raise("ValueError")
             ELSE IF \A p \in 1..Len(name) : name[p] \in Digits THEN Raise("IndexError")
             ELSE IF name \notin DOMAIN kw THEN Raise("KeyError")
             ELSE IF spec.err # "none" THEN spec
             ELSE LET r == format_value(kw[name], spec.text)
                  IN  IF r.err # "none" THEN r
                      ELSE Markup(s, kw, depth, m + 1, acc \o r.text)

\* template.format, called with the context as keyword arguments
str_format(template, kwargs) == Markup(template, kwargs, 2, 1, <<>>)

----------------------------------------------------------------------------
(* LogLevel *)

DEBUG == 0

INFO == 1

WARNING == 2

ERROR == 3

LogLevel == {DEBUG, INFO, WARNING, ERROR}

\* LogLevel(level).name
LevelName(level) ==
    IF level = DEBUG THEN <<"D", "E", "B", "U", "G">>
    ELSE IF level = INFO THEN <<"I", "N", "F", "O">>
    ELSE IF level = WARNING THEN <<"W", "A", "R", "N", "I", "N", "G">>
    ELSE <<"E", "R", "R", "O", "R">>

----------------------------------------------------------------------------
(* Objects *)

None == "None"

\* The loggers the program builds.
LoggerIds == {"A", "B"}

\* The sinks: the stream of the class-level StdOutHandler and three
\* StreamingHandler objects of the caller.
Sinks == {"stdout", "h1", "h2", "h3"}

\* Logger._default_handler, one object for every logger.
DefaultHandler == "stdout"

\* The caller's own list objects: hs holds two handlers, es is empty.
CallerLists == {"hs", "es"}

\* The list objects: the caller's, and the list each constructor creates,
\* named by its logger.
Lists == CallerLists \cup LoggerIds

\* The caller's lists as the caller built them.
CallerHeap == [l \in Lists |-> IF l = "hs" THEN <<"h1", "h3">> ELSE <<>>]

\* A Logger object before __init__ has set anything.
Blank ==
    [constructed |-> FALSE, name |-> <<>>, level |-> INFO, template |-> <<>>,
     ensure_new_lines |-> TRUE, handlers |-> None, defaults |-> EmptyMap,
     keys |-> <<>>]

\* A __setattr__ that only sets the attribute.
Logger_setattr_plain(self, name, value) == [self EXCEPT ![name] = value]

\* Logger.__setattr__: the attribute is set, and setting "template" derives
\* the keys again from the new template.
Logger_setattr(self, name, value) ==
    LET o == [self EXCEPT ![name] = value]
    IN  IF name = "template"
        THEN [o EXCEPT !.keys = keyname_findall(o.template)]
        ELSE o

\* The handler list part of Logger.__init__ (lines 93-97): the list object
\* the logger ends up holding, and the heap after the append.
InitHandlers(hp, id, handler, handlers) ==
    LET supplied == handlers # None /\ hp[handlers] # <<>>
        ref == IF supplied THEN handlers ELSE id
        hp0 == IF supplied THEN hp ELSE [hp EXCEPT ![id] = <<>>]
        hp1 == IF handler # None THEN [hp0 EXCEPT ![ref] = Append(@, handler)] ELSE hp0
    IN  IF hp1[ref] = <<>>
        THEN [ref |-> id, heap |-> [hp1 EXCEPT ![id] = <<DefaultHandler>>]]
        ELSE [ref |-> ref, heap |-> hp1]

\* Logger.__init__: the object it leaves, given its handler list.
Logger_init(ref, name, level, template, ensure_new_lines, defaults) ==
    LET o1 == Logger_setattr([Blank EXCEPT !.constructed = TRUE], "name", name)
        o2 == Logger_setattr(o1, "level", level)
        o3 == Logger_setattr(o2, "template", template)
        o4 == Logger_setattr(o3, "ensure_new_lines", ensure_new_lines)
        o5 == Logger_setattr(o4, "handlers", ref)
        o6 == Logger_setattr(o5, "defaults", defaults)
    IN  Logger_setattr(o6, "keys", keyname_findall(o6.template))

\* The elements of a sequence.
Range(q) == {q[p] : p \in 1..Len(q)}

----------------------------------------------------------------------------
(* Logger._log and the logging methods *)

\* output.endswith("\n")
EndsWithNewline(t) == Len(t) > 0 /\ t[Len(t)] = NL

RECURSIVE FanOutContinue(_, _, _, _, _, _)
\* A loop that catches a handler's write error and goes on to the next handler.
FanOutContinue(self, hs, kwargs, bad, p, writes) ==
    IF p > Len(hs) THEN [outcome |-> "returned", writes |-> writes]
    ELSE LET r == str_format(self.template, kwargs)
             output == IF self.ensure_new_lines /\ ~EndsWithNewline(r.text)
                       THEN Append(r.text, NL)
                       ELSE r.text
         IN  IF r.err # "none" THEN [outcome |-> r.err, writes |-> writes]
             ELSE FanOutContinue(self, hs, kwargs, bad, p + 1,
                      Append(writes, [sink |-> hs[p], text |-> output, ok |-> hs[p] \notin bad]))

RECURSIVE FanOut(_, _, _, _, _, _)
\* The loop over self.handlers from position p (lines 205-209): the
\* template is rendered for each handler, a newline is added when asked for
\* and missing, and the handler writes; a render or write error ends the call.
\* bad holds the sinks whose stream refuses the write.
FanOut(self, hs, kwargs, bad, p, writes) ==
    IF p > Len(hs) THEN [outcome |-> "returned", writes |-> writes]
    ELSE LET r == str_format(self.template, kwargs)
             output == IF self.ensure_new_lines /\ ~EndsWithNewline(r.text)
                       THEN Append(r.text, NL)
                       ELSE r.text
         IN  IF r.err # "none" THEN [outcome |-> r.err, writes |-> writes]
             ELSE IF hs[p] \in bad
             THEN [outcome |-> "WriteError",
                   writes |-> Append(writes, [sink |-> hs[p], text |-> output, ok |-> FALSE])]
             ELSE FanOut(self, hs, kwargs, bad, p + 1,
                         Append(writes, [sink |-> hs[p], text |-> output, ok |-> TRUE]))

\* The override taken by overrides.pop(key, None) when it is truthy, else
\* the built-in value (lines 185-192).
PopOr(overrides, key, builtin) ==
    IF key \in DOMAIN overrides /\ Truthy(overrides[key])
    THEN overrides[key]
    ELSE Lit(builtin)

\* The context of a call that passed the filter, before the missing keys
\* are filled in (lines 178-199).
Context(self, level, message, overrides, now) ==
    LET kw0 == [k \in DOMAIN self.defaults |-> Resolve(self.defaults[k])]
        kw1 == Update(kw0, K_message :> Lit(message))
        kw2 == Update(kw1, K_timestamp :> PopOr(overrides, K_timestamp, now))
        kw3 == Update(kw2, K_level :> PopOr(overrides, K_level, LevelName(level)))
        kw4 == Update(kw3, K_name :> PopOr(overrides, K_name, self.name))
        rest == Without(overrides, {K_timestamp, K_level, K_name})
    IN  Update(kw4, [k \in DOMAIN rest |-> Resolve(rest[k])])

\* The missing keys filled in with a backspace (lines 201-203).
FillMissing(kwargs, keys) ==
    [k \in DOMAIN kwargs \cup Range(keys) |->
        IF k \in DOMAIN kwargs THEN kwargs[k] ELSE Lit(<<BS>>)]

\* What a call did: whether it passed the level filter, how it ended, the
\* writes it made in order, how often it invoked the producer of each default
\* and of each override, and the context it rendered.
Result(passed, outcome, writes, ndefault, noverride, kwargs) ==
    [passed |-> passed, outcome |-> outcome, writes |-> writes,
     ndefault |-> ndefault, noverride |-> noverride, kwargs |-> kwargs]

\* Logger._log
Logger_log(self, hs, level, message, overrides, now, bad) ==
    IF level < self.level
    THEN Result(FALSE, "returned", <<>>,
                [k \in DOMAIN self.defaults |-> 0], [k \in DOMAIN overrides |-> 0],
                EmptyMap)
    ELSE LET kwargs == FillMissing(Context(self, level, message, overrides, now), self.keys)
             f == FanOut(self, hs, kwargs, bad, 1, <<>>)
         IN  Result(TRUE, f.outcome, f.writes,
                    [k \in DOMAIN self.defaults |->
                        IF callable(self.defaults[k]) THEN 1 ELSE 0],
                    [k \in DOMAIN overrides |->
                        IF k \notin {K_timestamp, K_level, K_name} /\ callable(overrides[k])
                        THEN 1 ELSE 0],
                    kwargs)

Methods == {"debug", "info", "warning", "error", "exception"}

\* The level each logging method passes to _log.
MethodLevel(method) ==
    IF method = "debug" THEN DEBUG
    ELSE IF method = "info" THEN INFO
    ELSE IF method = "warning" THEN WARNING
    ELSE ERROR

\* The message a method passes on: exception appends a newline and
\* traceback.format_exc().
MethodMessage(method, message, trace) ==
    IF method = "exception" THEN message \o <<NL>> \o trace ELSE message

\* A call of debug, info, warning, error or exception. Python binds the
\* keyword arguments first: an override named message collides with the
\* method's own parameter, and one named level with _log's, a TypeError
\* before any line of _log runs.
Logger_call(self, hs, method, message, overrides, now, trace, bad) ==
    IF K_message \in DOMAIN overrides \/ K_level \in DOMAIN overrides
    THEN Result(FALSE, "TypeError", <<>>,
                [k \in DOMAIN self.defaults |-> 0], [k \in DOMAIN overrides |-> 0],
                EmptyMap)
    ELSE Logger_log(self, hs, MethodLevel(method), MethodMessage(method, message, trace),
                    overrides, now, bad)

----------------------------------------------------------------------------
(* The state machine *)

NoCall ==
    [made |-> FALSE, logger |-> None, method |-> None, message |-> <<>>,
     overrides |-> EmptyMap, now |-> <<>>, trace |-> <<>>, bad |-> {},
     self |-> Blank, handlers |-> <<>>,
     result |-> Result(FALSE, "returned", <<>>, EmptyMap, EmptyMap, EmptyMap)]

NoArgs == [handler |-> None, handlers |-> None, supplied |-> <<>>]

\* The process after the module is imported: no logger yet, the caller's
\* lists as built, every stream empty.
Init ==
    /\ loggers = [i \in LoggerIds |-> Blank]
    /\ heap = CallerHeap
    /\ out = [s \in Sinks |-> <<>>]
    /\ call = NoCall
    /\ given = [i \in LoggerIds |-> NoArgs]

\* No call's output waits in the sinks to be read: the caller makes one
\* call at a time and reads what it wrote before the next operation.
Idle == ~call.made

\* Logger(name, level, template, handler, handlers, ensure_new_lines, defaults)
Construct(id, name, level, template, handler, handlers, ensure_new_lines, defaults) ==
    /\ Idle
    /\ ~loggers[id].constructed
    /\ LET h == InitHandlers(heap, id, handler, handlers)
       IN  /\ heap' = h.heap
           /\ loggers' = [loggers EXCEPT ![id] =
                  Logger_init(h.ref, name, level, template, ensure_new_lines, defaults)]
    /\ given' = [given EXCEPT ![id] =
           [handler |-> handler, handlers |-> handlers,
            supplied |-> IF handlers = None THEN <<>> ELSE heap[handlers]]]
    /\ UNCHANGED <<out, call>>

\* logger.template = template
SetTemplate(id, template) ==
    /\ Idle
    /\ loggers[id].constructed
    /\ loggers' = [loggers EXCEPT ![id] = Logger_setattr(@, "template", template)]
    /\ UNCHANGED <<heap, out, call, given>>

RECURSIVE Written(_, _)
\* The characters a sink's stream received from the writes of a call.
Written(writes, s) ==
    IF writes = <<>> THEN <<>>
    ELSE (IF Head(writes).sink = s /\ Head(writes).ok THEN Head(writes).text ELSE <<>>)
         \o Written(Tail(writes), s)

\* logger.debug / info / warning / error / exception (message, overrides),
\* at a time the clock reads now, with trace the text of format_exc() and
\* bad the sinks whose stream refuses a write.
Log(id, method, message, overrides, now, trace, bad) ==
    /\ Idle
    /\ loggers[id].constructed
    /\ LET self == loggers[id]
           hs == heap[self.handlers]
           r == Logger_call(self, hs, method, message, overrides, now, trace, bad)
       IN  /\ call' = [made |-> TRUE, logger |-> id, method |-> method,
                       message |-> message, overrides |-> overrides, now |-> now,
                       trace |-> trace, bad |-> bad, self |-> self, handlers |-> hs,
                       result |-> r]
           /\ out' = [s \in Sinks |-> out[s] \o Written(r.writes, s)]
    /\ UNCHANGED <<loggers, heap, given>>

\* get_output of the tests: the caller reads every stream and truncates it.
GetOutput ==
    /\ call.made
    /\ out' = [s \in Sinks |-> <<>>]
    /\ call' = NoCall
    /\ UNCHANGED <<loggers, heap, given>>

----------------------------------------------------------------------------
(* The inputs *)

DefaultTemplate ==
    <<"{", "t", "i", "m", "e", "s", "t", "a", "m", "p", "}", " ",
      "{", "l", "e", "v", "e", "l", "}", " ", "{", "n", "a", "m", "e", "}", ":", " ",
      "{", "m", "e", "s", "s", "a", "g", "e", "}">>

\* "{foo}: {message}", the template of the tests
T_foo == <<"{", "f", "o", "o", "}", ":", " ", "{", "m", "e", "s", "s", "a", "g", "e", "}">>

\* "{foo:s}: {message}", a field with a format spec
T_spec ==
    <<"{", "f", "o", "o", ":", "s", "}", ":", " ", "{", "m", "e", "s", "s", "a", "g", "e", "}">>

\* "{message}\n", a template that ends with a newline
T_nl == <<"{", "m", "e", "s", "s", "a", "g", "e", "}", "\n">>

\* "{b} {a} {b}", the example of the key extraction
T_bab == <<"{", "b", "}", " ", "{", "a", "}", " ", "{", "b", "}">>

\* "{a:{a}}", a field whose format spec is itself a field
T_nest == <<"{", "a", ":", "{", "a", "}", "}">>

\* "{a}"
T_a == <<"{", "a", "}">>

\* "{level} {name}: {message}", the template of test_exception_capturing
T_lvl ==
    <<"{", "l", "e", "v", "e", "l", "}", " ", "{", "n", "a", "m", "e", "}", ":", " ",
      "{", "m", "e", "s", "s", "a", "g", "e", "}">>

V_test == <<"t", "e", "s", "t">>

V_ok == <<"o", "k">>

V_bar == <<"b", "a", "r">>

V_baz == <<"b", "a", "z">>

V_yay == <<"y", "a", "y", "!">>

V_dyn == <<"d", "y", "n">>

\* datetime.now().isoformat(), whatever the clock reads
V_now == <<"T", "1">>

V_then == <<"T", "0">>

\* format_exc() with no exception being handled
TraceNone == <<"N", "o", "n", "e", "T", "y", "p", "e", ":", " ", "N", "o", "n", "e", "\n">>

\* format_exc() while a ZeroDivisionError is handled
TraceZero ==
    <<"T", "r", "a", "c", "e", "b", "a", "c", "k", "\n",
      "Z", "e", "r", "o", "D", "i", "v", "i", "s", "i", "o", "n", "E", "r", "r", "o", "r", "\n">>

Templates == {DefaultTemplate, T_foo, T_spec, T_nl}

DefaultsSet ==
    {EmptyMap,
     K_foo :> Lit(V_bar),
     (K_foo :> Producer(V_dyn)) @@ (K_message :> Producer(V_then))}

OverridesSet ==
    {EmptyMap,
     K_foo :> Lit(V_baz),
     K_foo :> Producer(V_yay),
     K_timestamp :> Lit(<<>>),
     K_timestamp :> Lit(V_then),
     K_timestamp :> Producer(V_then),
     K_name :> Lit(<<>>),
     K_name :> Lit(V_baz),
     K_name :> Producer(V_yay),
     K_level :> Lit(<<>>),
     K_level :> Lit(V_baz),
     K_message :> Lit(V_baz)}

\* The traces format_exc() can return to a method: only exception calls it.
Traces(method) == IF method = "exception" THEN {TraceNone, TraceZero} ELSE {<<>>}

BadSets == {{}, {"h1"}, {"h2"}, {"h3"}}

\* The longest template the template specification enumerates in full.
MaxLen == 6

TemplateChars == {"{", "}", "a", "0", ":"}

\* Every string over TemplateChars of at most MaxLen characters, and the
\* longer templates named above.
AllTemplates ==
    UNION {[1..n -> TemplateChars] : n \in 0..MaxLen}
        \cup {DefaultTemplate, T_foo, T_spec, T_bab, T_nest}

----------------------------------------------------------------------------
(* The specifications *)

\* One logger, every level, method, override and failing sink.
Next ==
    \/ \E level \in LogLevel, template \in Templates, handler \in {None, "h2"},
          handlers \in {None, "hs"}, ensure_new_lines \in BOOLEAN, defaults \in DefaultsSet :
          Construct("A", V_test, level, template, handler, handlers, ensure_new_lines, defaults)
    \/ \E template \in Templates : SetTemplate("A", template)
    \/ \E method \in Methods, overrides \in OverridesSet, bad \in BadSets :
          \E trace \in Traces(method) :
              Log("A", method, V_ok, overrides, V_now, trace, bad)
    \/ GetOutput

Spec == Init /\ [][Next]_vars

\* One logger, every template.
NextTemplate ==
    \/ /\ ~loggers["A"].constructed
       /\ \E template \in AllTemplates, defaults \in {EmptyMap, K_a :> Lit(V_bar)} :
              Construct("A", V_test, INFO, template, "h1", None, TRUE, defaults)
    \/ \E template \in {T_a, T_lvl, <<>>} : SetTemplate("A", template)
    \/ \E overrides \in {EmptyMap, K_a :> Lit(V_baz)} :
          Log("A", "info", V_ok, overrides, V_now, <<>>, {})
    \/ GetOutput

SpecTemplate == Init /\ [][NextTemplate]_vars

\* Two loggers, every way of passing them sinks.
NextShared ==
    \/ \E id \in LoggerIds, handler \in {None, "h1", "h2"}, handlers \in {None} \cup CallerLists :
          Construct(id, V_test, INFO, T_foo, handler, handlers, TRUE, EmptyMap)
    \/ \E id \in LoggerIds, bad \in {{}, {"h1"}} :
          Log(id, "info", V_ok, EmptyMap, V_now, <<>>, bad)
    \/ GetOutput

SpecShared == Init /\ [][NextShared]_vars

----------------------------------------------------------------------------
(* The claims *)

\* The level of the call and the threshold of the logger it was made on.
CallLevel == MethodLevel(call.method)

Threshold == call.self.level

RenderErrors == {"KeyError", "IndexError", "ValueError", "TypeError"}

\* The keys a call has a value for without the missing-key step: the
\* logger's defaults, the four built-in keys and the overrides.
SuppliedKeys ==
    DOMAIN call.self.defaults \cup {K_message, K_timestamp, K_level, K_name}
        \cup DOMAIN call.overrides

MissingKeys == Range(call.self.keys) \ SuppliedKeys

\* The text of the call's first write.
RenderedText == call.result.writes[1].text

\* C1: level filtering is exact. A debug/info/warning/error call below the
\* logger's threshold writes to no sink and invokes no producer; a call at or
\* above it writes at least once, and once per configured sink when no write
\* fails.
C1_FilterExact ==
    (call.made /\ call.method # "exception") =>
        LET r == call.result
        IN  /\ CallLevel < Threshold =>
                  /\ r.writes = <<>>
                  /\ \A s \in Sinks : out[s] = <<>>
                  /\ \A k \in DOMAIN r.ndefault : r.ndefault[k] = 0
                  /\ \A k \in DOMAIN r.noverride : r.noverride[k] = 0
            /\ CallLevel >= Threshold =>
                  /\ Len(r.writes) >= 1
                  /\ (\A p \in 1..Len(r.writes) : r.writes[p].ok)
                        => Len(r.writes) = Len(call.handlers)

\* The positions where a placeholder {identifier} starts in a template.
PlaceholderStarts(s) ==
    {i \in 1..Len(s) :
        /\ s[i] = "{"
        /\ \E j \in (i + 2)..Len(s) :
              s[j] = "}" /\ \A p \in (i + 1)..(j - 1) : s[p] \in IdentChars}

\* The identifier of the placeholder that starts at i.
PlaceholderName(s, i) ==
    LET j == CHOOSE j \in (i + 2)..Len(s) :
                 s[j] = "}" /\ \A p \in (i + 1)..(j - 1) : s[p] \in IdentChars
    IN  SubSeq(s, i + 1, j - 1)

C3_ProducersInvokedOnce ==
    (call.made /\ call.result.passed) =>
        LET r == call.result
        IN  /\ \A k \in DOMAIN call.self.defaults :
                  callable(call.self.defaults[k]) =>
                      /\ r.ndefault[k] = 1
                      /\ k \notin {K_message, K_timestamp, K_level, K_name}
                                    \cup DOMAIN call.overrides
                            => r.kwargs[k] = Lit(call.self.defaults[k].s)
            /\ \A k \in DOMAIN call.overrides :
                  callable(call.overrides[k]) =>
                      /\ r.noverride[k] = 1
                      /\ r.kwargs[k] = Lit(call.overrides[k].s)

\* The built-in value of timestamp, level or name in the call.
BuiltIn(key) ==
    IF key = K_timestamp THEN call.now
    ELSE IF key = K_level THEN LevelName(CallLevel)
    ELSE call.self.name

\* The keys whose value comes from a built-in value or an override.
SuppliedOtherwise == {K_message, K_timestamp, K_level, K_name} \cup DOMAIN call.overrides

\* C4: in a call that is not filtered out the context is built with
\* default < built-in < override: message is the call's message, an override
\* of any other key wins over the default and the built-in value, and an
\* override of timestamp, level or name that is present but falsy leaves the
\* built-in value in place.
C4_Precedence ==
    (call.made /\ call.method # "exception" /\ CallLevel >= Threshold) =>
        LET r == call.result
        IN  /\ r.passed
            /\ \A k \in DOMAIN call.overrides :
                  /\ k \in DOMAIN r.kwargs
                  /\ Truthy(call.overrides[k]) /\ ~callable(call.overrides[k])
                        => r.kwargs[k] = call.overrides[k]
                  /\ (k \in {K_timestamp, K_level, K_name} /\ ~Truthy(call.overrides[k]))
                        => r.kwargs[k] = Lit(BuiltIn(k))
            /\ \A k \in {K_timestamp, K_level, K_name} \ DOMAIN call.overrides :
                  r.kwargs[k] = Lit(BuiltIn(k))
            /\ K_message \notin DOMAIN call.overrides
                  => r.kwargs[K_message] = Lit(call.message)
            /\ \A k \in DOMAIN call.self.defaults \ SuppliedOtherwise :
                  r.kwargs[k] = Resolve(call.self.defaults[k])

\* C5: in a call that passes the filter every key of the key set without a
\* default, a built-in value or an override holds exactly one backspace, it
\* is what the output shows for "{a}", and the call completes without error.
C5_MissingKeySentinel ==
    (call.made /\ call.result.passed /\ MissingKeys # {} /\ call.bad = {}) =>
        /\ \A k \in MissingKeys : call.result.kwargs[k] = Lit(<<BS>>)
        /\ call.result.outcome = "returned"
        /\ call.self.template = T_a => RenderedText = <<BS, NL>>

\* C6: the stored key set of every logger is the extraction of its current
\* template, after construction and after every reassignment, and the call
\* that was made used the keys of the template it rendered: each of them has
\* a value in its context.
C6_KeysFollowTemplate ==
    /\ \A id \in LoggerIds :
          loggers[id].constructed =>
              loggers[id].keys = keyname_findall(loggers[id].template)
    /\ (call.made /\ call.result.passed) =>
          /\ call.self.keys = keyname_findall(call.self.template)
          /\ Range(keyname_findall(call.self.template)) \subseteq DOMAIN call.result.kwargs

\* C6's case: the template was reassigned to "{level} {name}: {message}",
\* which no constructor call of this specification passes, and a call
\* rendered it.
C6_Witness ==
    /\ loggers["A"].template = T_lvl
    /\ call.made
    /\ call.self.template = T_lvl
    /\ call.result.outcome = "returned"
    /\ call.result.writes # <<>>

\* C7: exception(msg, overrides) is dispatched at ERROR whatever the
\* threshold: it is never filtered out, it writes to every configured sink
\* (no sink refusing the write), the level is "ERROR" when no level override
\* is given, and the message is msg, a newline and the trace.
C7_ExceptionAtError ==
    (call.made /\ call.method = "exception" /\ call.bad \cap Range(call.handlers) = {}) =>
        LET r == call.result
        IN  /\ r.passed
            /\ Len(r.writes) = Len(call.handlers)
            /\ K_level \notin DOMAIN call.overrides
                  => r.kwargs[K_level] = Lit(<<"E", "R", "R", "O", "R">>)
            /\ r.kwargs[K_message] = Lit(call.message \o <<NL>> \o call.trace)

\* C8: a call that passes the filter never fails on an unresolved key: the
\* render step finds every name it looks up in the context.
C8_NoUnresolvedKey ==
    (call.made /\ call.result.passed) => call.result.outcome # "KeyError"

\* The position of the first configured sink that refuses the write, or one
\* past the last sink.
FirstBad ==
    LET hs == call.handlers
        failing == {p \in 1..Len(hs) : hs[p] \in call.bad}
    IN  IF failing = {} THEN Len(hs) + 1
        ELSE CHOOSE p \in failing : \A q \in failing : p <= q

RECURSIVE TextTimes(_, _)
\* n copies of a text, one after the other.
TextTimes(t, n) == IF n = 0 THEN <<>> ELSE t \o TextTimes(t, n - 1)

\* C9: in a call that passes the filter, write is invoked on the sinks in
\* configuration order with one and the same text; when the write of sink i
\* fails the call ends with that failure, the sinks before i have received
\* the text once for each place they hold in the list, and the sinks after i
\* were not written to. (A call whose rendering raises writes to no sink.)
C9_FanOutInOrder ==
    (call.made /\ call.result.passed) =>
        LET hs == call.handlers
            w == call.result.writes
            last == IF FirstBad <= Len(hs) THEN FirstBad ELSE Len(hs)
        IN  IF call.result.outcome \in RenderErrors
            THEN w = <<>> /\ \A s \in Sinks : out[s] = <<>>
            ELSE /\ Len(w) = last
                 /\ \A p \in 1..Len(w) :
                       /\ w[p].sink = hs[p]
                       /\ w[p].text = w[1].text
                       /\ w[p].ok <=> p < FirstBad
                 /\ call.result.outcome
                       = (IF FirstBad <= Len(hs) THEN "WriteError" ELSE "returned")
                 /\ \A s \in Sinks :
                       out[s] = TextTimes(w[1].text,
                                    Cardinality({p \in 1..(FirstBad - 1) : hs[p] = s}))

\* C9's case: three sinks, the second refuses the write: the first has the
\* text, the third has nothing, and the call ended with the failure.
C9_Witness ==
    /\ call.made
    /\ call.handlers = <<"h1", "h3", "h2">>
    /\ call.bad = {"h3"}
    /\ call.result.outcome = "WriteError"
    /\ out["h1"] # <<>>
    /\ out["h2"] = <<>>

\* The sink list the constructor arguments of a logger ask for.
ExpectedHandlers(id) ==
    LET asked == given[id].supplied
                     \o (IF given[id].handler = None THEN <<>> ELSE <<given[id].handler>>)
    IN  IF asked = <<>> THEN <<DefaultHandler>> ELSE asked

\* C10: the sink list of a logger is the one its own constructor arguments
\* ask for, non-empty, in every later state, and no constructor changes a
\* list of the caller.
C10_HandlersFixed ==
    /\ \A id \in LoggerIds :
          loggers[id].constructed =>
              /\ heap[loggers[id].handlers] # <<>>
              /\ heap[loggers[id].handlers] = ExpectedHandlers(id)
    /\ \A l \in CallerLists : heap[l] = CallerHeap[l]

----------------------------------------------------------------------------
(* C1, C5 and C7 apart from the errors of C4 and C8: what holds of the     *)
(* calls that neither collide with a parameter name nor fail to render     *)

\* The call reached the fan-out: it ended normally or with a sink's error.
Delivered == call.result.outcome \in {"returned", "WriteError"}

\* The level filter: below the threshold nothing is written and no producer
\* is invoked; at or above it a call that reaches the fan-out invokes write
\* at least once, and once per configured sink when no write fails.
FilterExactWhenDelivered ==
    (call.made /\ call.method # "exception") =>
        LET r == call.result
        IN  /\ CallLevel < Threshold =>
                  /\ r.writes = <<>>
                  /\ \A s \in Sinks : out[s] = <<>>
                  /\ \A k \in DOMAIN r.ndefault : r.ndefault[k] = 0
                  /\ \A k \in DOMAIN r.noverride : r.noverride[k] = 0
            /\ (CallLevel >= Threshold /\ r.outcome # "TypeError") => r.passed
            /\ (CallLevel >= Threshold /\ Delivered) =>
                  /\ Len(r.writes) >= 1
                  /\ (\A p \in 1..Len(r.writes) : r.writes[p].ok)
                        => Len(r.writes) = Len(call.handlers)

\* The sentinel: every key of the key set without a value holds one
\* backspace in the context of a call that passes the filter, and "{a}"
\* renders as a backspace and a newline.
SentinelInContext ==
    (call.made /\ call.result.passed) =>
        /\ \A k \in MissingKeys : call.result.kwargs[k] = Lit(<<BS>>)
        /\ (call.self.template = T_a /\ MissingKeys # {}) =>
              call.result.outcome = "returned" /\ RenderedText = <<BS, NL>>

\* exception: whatever the threshold, a call without a level override passes
\* the filter with level "ERROR" and the message, a newline and the trace,
\* and when it reaches the fan-out and no sink refuses, every sink is written.
ExceptionAtErrorWhenDelivered ==
    (call.made /\ call.method = "exception" /\ call.result.outcome # "TypeError") =>
        LET r == call.result
        IN  /\ r.passed
            /\ K_level \notin DOMAIN call.overrides
            /\ r.kwargs[K_level] = Lit(<<"E", "R", "R", "O", "R">>)
            /\ r.kwargs[K_message] = Lit(call.message \o <<NL>> \o call.trace)
            /\ (Delivered /\ call.bad \cap Range(call.handlers) = {})
                  => Len(r.writes) = Len(call.handlers)

====
